---- MODULE Spec2Model ----
(***************************************************************************)
(* Interview orchestration engine of the recruitment back end:             *)
(* InterviewService (app/services/interview_service.py) and the Telegram   *)
(* adapter's role-selection handler (app/services/telegram_service.py).    *)
(*                                                                         *)
(* The handlers are coroutines on one event loop.  A coroutine yields only *)
(* at an await, so each action below is the code between two awaits of one *)
(* request: one store operation, or one LLM call resolving, together with  *)
(* the synchronous code that follows it.  Reads of documents that no step  *)
(* of the model writes (the candidate's existence, the pipeline document)  *)
(* commute with every other step and are folded into the next step of the  *)
(* same request; the pipeline collection belongs to the pipeline CRUD and  *)
(* the outcome of reading it is an input.                                  *)
(*                                                                         *)
(* Spec follows the request handlers; of the usage ledger it keeps the     *)
(* interaction types of token_usage_logs.  The amounts and the running     *)
(* totals written by _log_token_usage are followed await by await in       *)
(* SpecLedger, and the prompt compiler (get_system_prompt,                 *)
(* generate_system_prompt) in SpecPrompt.                                  *)
(***************************************************************************)
EXTENDS Integers, Sequences, FiniteSets, TLC

\* ---------------------------------------------------------------- bounds
MaxRequests == 2      \* requests (handler invocations) accepted in a run
MaxUsage == 1         \* LLM responses that carry usage metadata in a run

Tasks == {"t1", "t2"}            \* requests that may be in flight together
Candidates == {"c1"}             \* candidate documents in the store
CandidateIds == Candidates \cup {"c0"}   \* "c0": an id with no document

VARIABLES
    sessions,      \* interview_sessions collection, in insertion order
    candStatus,    \* candidates collection: status field per candidate
    usage_logs,    \* token_usage_logs collection: interaction types, in order
    task,          \* per request slot: handler, position and locals
    requests,      \* requests accepted so far
    ledger,        \* amounts: log entries, candidate and organization totals
    billing,       \* per slot: a _log_token_usage call, position and locals
    pipeline,      \* the pipeline document handed to the prompt compiler
    prompt         \* what the prompt compiler returned

ledgerVars == <<ledger, billing>>
promptVars == <<pipeline, prompt>>
vars == <<sessions, candStatus, usage_logs, task, requests, ledger, billing,
          pipeline, prompt>>

\* ------------------------------------------------------------- messages
SystemMsg == [role |-> "system", content |-> "prompt"]
UserMsg == [role |-> "user", content |-> "answer"]
AssistantMsg == [role |-> "assistant", content |-> "reply"]
ApologyMsg == [role |-> "assistant", content |-> "apology"]

\* InterviewSession(candidate_id=..., messages=[]) with the model defaults
NewSession(c) ==
    [candidate_id |-> c, status |-> "active", messages |-> <<>>,
     scores |-> <<>>, total_score |-> 0]

SessionIds == 1..Len(sessions)

\* find_one({"candidate_id": c, "status": "active"}): the first matching
\* document in natural (insertion) order, 0 when none matches
ActiveOf(c) ==
    {s \in SessionIds : sessions[s].candidate_id = c /\ sessions[s].status = "active"}

FindActive(c) ==
    IF ActiveOf(c) = {} THEN 0
    ELSE CHOOSE s \in ActiveOf(c) : \A r \in ActiveOf(c) : s <= r

\* update_one({"_id": s}, {"$push": {"messages": m}})
PushReplacing(s, m) ==
    [sessions EXCEPT ![s].messages = <<m>>]

Push(s, m) ==
    [sessions EXCEPT ![s].messages = Append(@, m)]

\* InterviewSession(**data): status is Literal["active", "completed"]
ValidatesAny(doc) == TRUE

Validates(doc) == doc.status \in {"active", "completed"}

\* telegram adapter: a non-empty log whose last message is not the assistant's
Stuck(msgs) == msgs # <<>> /\ msgs[Len(msgs)].role # "assistant"

\* ----------------------------------------------------------- task record
\* op, pc: the handler and its position; cand, sid, retry, msg, scoring: its
\* locals; messages: the working history of a turn, tool_calls: the tool
\* calls of its first response (both dropped once nothing reads them any
\* more); pos: where this turn's user message went;
\* calls: LLM chat calls resolved in this request; crm: how the Airtable
\* sync ended; result, via: what the handler returned and on which path
Idle ==
    [op |-> "idle", pc |-> "idle", cand |-> "c0", sid |-> 0, retry |-> FALSE,
     msg |-> UserMsg, pos |-> 0, calls |-> 0,
     messages |-> <<>>, tool_calls |-> <<>>,
     scoring |-> [scores |-> <<>>, total_score |-> 0, summary_notes |-> ""],
     crm |-> "none", result |-> "none", via |-> "none"]

\* the handler returns: its locals are dropped, the response is kept until
\* it is delivered, with what the request did (the scores it wrote, the tool
\* calls it left unanswered, how the sync ended)
Done(r, result, via) ==
    [Idle EXCEPT !.op = r.op, !.pc = "done", !.cand = r.cand, !.sid = r.sid,
                 !.pos = r.pos, !.calls = r.calls,
                 !.scoring = [r.scoring EXCEPT !.summary_notes = ""],
                 !.tool_calls = r.tool_calls, !.crm = r.crm,
                 !.result = result, !.via = via]

\* a step of a request handler changes its slot
Set(t, r) ==
    /\ task' = [task EXCEPT ![t] = r]
    /\ UNCHANGED <<ledgerVars, promptVars>>

\* "if response.usage: await self._log_token_usage(...)".  The response
\* carries no usage metadata ("none"), or the call records it ("logged"), or
\* the call raises: at insert_one (line 479), nothing written, or at one of
\* the counter updates (lines 482-499), the log entry already written.
UsageChoices ==
    {"none", "insert_raised"}
       \cup (IF Len(usage_logs) < MaxUsage THEN {"logged", "inc_raised"} ELSE {})

LogUsageAsChat(u, kind) ==
    IF u \in {"logged", "inc_raised"} THEN Append(usage_logs, "chat") ELSE usage_logs

LogUsage(u, kind) ==
    IF u \in {"logged", "inc_raised"} THEN Append(usage_logs, kind) ELSE usage_logs

\* _log_token_usage has no try block of its own (lines 444-501)
BillingRaised(u) == u \in {"insert_raised", "inc_raised"}

\* ------------------------------------------------- ledger and compiler
\* token counts and cost of a log entry or of running totals
Amount(i, o, c) == [input_tokens |-> i, output_tokens |-> o, cost |-> c]

\* no log entry yet; total_input_tokens, total_output_tokens and
\* total_ai_cost of the candidate and of the organization default to 0
EmptyLedger ==
    [entries |-> <<>>, candidate |-> Amount(0, 0, 0),
     organization |-> Amount(0, 0, 0)]

\* no _log_token_usage call in progress
NoCall ==
    [pc |-> "idle", candidate_id |-> "c0", kind |-> "none",
     usage |-> Amount(0, 0, 0)]

\* a pipeline document: interview_agent.enabled, interview_agent.agent_prompt
\* and the questions of its stages, in stage order; found: find_one returned
\* the document
Pipeline(enabled, template, questions) ==
    [found |-> TRUE, enabled |-> enabled, agent_prompt |-> template,
     questions |-> questions]

NotCompiled == [kind |-> "none", text |-> <<>>]

\* The store when the service starts serving: empty, or holding one session
\* of an earlier run whose opening turn completed (what create_session
\* leaves behind for a candidate).
Init ==
    /\ sessions \in {<<>>, <<[NewSession("c1") EXCEPT !.messages = <<AssistantMsg>>]>>}
    /\ candStatus = [c \in Candidates |-> "active"]
    /\ usage_logs = <<>>
    /\ task = [t \in Tasks |-> Idle]
    /\ requests = 0
    /\ ledger = EmptyLedger
    /\ billing = [t \in Tasks |-> NoCall]
    /\ pipeline = Pipeline(FALSE, <<>>, <<>>)
    /\ prompt = NotCompiled


\* a request takes a free slot; the slots are interchangeable, so the second
\* is used only while the first is busy
Free(t) ==
    /\ requests < MaxRequests
    /\ task[t].pc = "idle" /\ (t = "t1" \/ task["t1"].pc # "idle")

\* the response has been sent and the handler's frame is gone
Deliver(t) ==
    /\ task[t].pc = "done"
    /\ Set(t, Idle)
    /\ UNCHANGED <<sessions, candStatus, usage_logs, requests>>

\* ------------------------------------------------------- create_session
\* line 44: "if not existing.get('messages')" - the found session still
\* lacks its opening message
NeedsGreetingAlways(doc) == TRUE

NeedsGreeting(doc) == doc.messages = <<>>

\* an exception leaving create_session: the router turns it into an HTTP
\* error, button_click catches it (line 208) and sends an error text
Raised(r, via) ==
    Done(r, IF r.op = "button" THEN "error_sent" ELSE "raise", via)

\* create_session returns InterviewSession(**doc) for the document it read.
\* In button_click the first returned session is tested for being stuck
\* (line 172); otherwise the greeting is sent from the returned snapshot
\* (lines 188-206).
Return(r, s, doc) ==
    IF ~Validates(doc) THEN Raised(r, "invalid")
    ELSE IF r.op = "button" /\ ~r.retry /\ Stuck(doc.messages)
    THEN [r EXCEPT !.pc = "bc_abandon", !.sid = s]
    ELSE Done([r EXCEPT !.sid = s],
              IF r.op # "button" THEN "session"
              ELSE IF doc.messages # <<>>
                      /\ doc.messages[Len(doc.messages)].role = "assistant"
                   THEN "greeting_sent" ELSE "went_wrong",
              r.via)

\* create_session, lines 29-50: candidate and pipeline must exist, then the
\* lookup of an active session decides between resume, self-heal and insert
CreateSession(t, r, c, pipelineFound) ==
    LET s == FindActive(c) IN
    /\ UNCHANGED <<sessions, candStatus, usage_logs>>
    /\ IF c \notin Candidates \/ ~pipelineFound
       THEN Set(t, Raised([r EXCEPT !.cand = c], "not_found"))
       ELSE IF s # 0
       THEN IF NeedsGreeting(sessions[s])
            THEN Set(t, [r EXCEPT !.pc = "gr_llm", !.cand = c, !.sid = s,
                                  !.via = "healed"])
            ELSE Set(t, Return([r EXCEPT !.cand = c, !.via = "resumed"],
                               s, sessions[s]))
       ELSE Set(t, [r EXCEPT !.pc = "cs_insert", !.cand = c, !.via = "created"])

\* POST /api/v1/interviews/start
StartInterview(t) ==
    /\ Free(t)
    /\ requests' = requests + 1
    /\ \E c \in CandidateIds, pipelineFound \in BOOLEAN :
          CreateSession(t, [Idle EXCEPT !.op = "start"], c, pipelineFound)

\* button_click "apply_<pipeline>": the candidate is found or created, then
\* create_session is called for it
ButtonClick(t) ==
    /\ Free(t)
    /\ requests' = requests + 1
    /\ \E c \in Candidates, pipelineFound \in BOOLEAN :
          CreateSession(t, [Idle EXCEPT !.op = "button"], c, pipelineFound)

\* lines 52-61: insert_one of the new session
InsertSession(t) ==
    /\ task[t].pc = "cs_insert"
    /\ sessions' = Append(sessions, NewSession(task[t].cand))
    /\ Set(t, [task[t] EXCEPT !.pc = "gr_llm", !.sid = Len(sessions) + 1])
    /\ UNCHANGED <<candStatus, usage_logs, requests>>

\* _generate_initial_greeting, lines 506-528 and 535-540: the opening call
\* resolves.  content "" pushes nothing; content None fails at line 526 and
\* falls into the except branch like a failed call.
GreetingOutcomes == {"raise", "text", "empty", "none"}

\* lines 528-544: what follows the call - the except branch catches every
\* failure and has the apology pushed; otherwise the text is pushed, if any
GreetingRaises(r, failed, out) ==
    IF failed THEN Raised([r EXCEPT !.calls = 1], "greeting_raised")
    ELSE [r EXCEPT !.pc = IF out = "empty" THEN "cs_refetch" ELSE "gr_push",
                   !.calls = 1,
                   !.msg = IF out = "text" THEN AssistantMsg ELSE UserMsg]

AfterGreeting(r, failed, out) ==
    [r EXCEPT !.pc = IF ~failed /\ out = "empty" THEN "cs_refetch" ELSE "gr_push",
              !.calls = 1,
              !.msg = CASE failed -> ApologyMsg
                        [] out = "text" -> AssistantMsg
                        [] OTHER -> UserMsg]

GreetingResponse(t) ==
    /\ task[t].pc = "gr_llm"
    /\ \E out \in GreetingOutcomes :
       \E u \in IF out = "raise" THEN {"none"} ELSE UsageChoices :
          LET failed == out \in {"raise", "none"} \/ BillingRaised(u)
          IN  /\ usage_logs' = LogUsage(u, "greeting")
              /\ Set(t, AfterGreeting(task[t], failed, out))
    /\ UNCHANGED <<sessions, candStatus, requests>>

\* lines 530-533 and 541-544: $push of the greeting or of the apology
GreetingPush(t) ==
    /\ task[t].pc = "gr_push"
    /\ sessions' = Push(task[t].sid, task[t].msg)
    /\ Set(t, [task[t] EXCEPT !.pc = "cs_refetch", !.msg = UserMsg])
    /\ UNCHANGED <<candStatus, usage_logs, requests>>

\* lines 48-50 and 67-68: re-read the session by id and return it
Refetch(t) ==
    /\ task[t].pc = "cs_refetch"
    /\ Set(t, Return(task[t], task[t].sid, sessions[task[t].sid]))
    /\ UNCHANGED <<sessions, candStatus, usage_logs, requests>>

\* ---------------------------------------------------------- button_click
\* lines 175-178: the stuck session is marked abandoned
AbandonStuck(t) ==
    /\ task[t].pc = "bc_abandon"
    /\ sessions' = [sessions EXCEPT ![task[t].sid].status = "abandoned"]
    /\ Set(t, [task[t] EXCEPT !.pc = "bc_recreate"])
    /\ UNCHANGED <<candStatus, usage_logs, requests>>

\* lines 180-184: the second create_session call of the same click
RecreateSession(t) ==
    /\ task[t].pc = "bc_recreate"
    /\ UNCHANGED requests
    /\ \E pipelineFound \in BOOLEAN :
          CreateSession(t, [task[t] EXCEPT !.retry = TRUE], task[t].cand, pipelineFound)

\* ------------------------------------------------------ process_message
\* line 125: a completed session is answered with the fixed notice
NeverCompleted(doc) == FALSE

AlreadyCompleted(doc) == doc.status = "completed"

\* lines 274-279: an exception inside the try block becomes the reply
\* "Error: ..."
ErrorPropagates(r, via) == Done(r, "raise", via)

ErrorReply(r, via) == Done(r, "Error", via)

\* lines 120-126: POST /api/v1/interviews/chat with any session id (0: an id
\* with no document).  The session is read and validated; the system prompt
\* read that follows (line 129) is folded in.
ProcessMessage(t) ==
    /\ Free(t)
    /\ requests' = requests + 1
    /\ \E s \in 0..Len(sessions) :
          LET r == [Idle EXCEPT !.op = "chat", !.sid = s] IN
          IF s = 0 THEN Set(t, Done(r, "raise", "not_found"))
          ELSE IF ~Validates(sessions[s]) THEN Set(t, Done(r, "raise", "invalid"))
          ELSE IF AlreadyCompleted(sessions[s])
          THEN Set(t, Done(r, "AlreadyCompleted", "notice"))
          ELSE Set(t, [r EXCEPT !.pc = "pm_push", !.cand = sessions[s].candidate_id,
                                !.messages = <<SystemMsg>> \o sessions[s].messages
                                                \o <<UserMsg>>])
    /\ UNCHANGED <<sessions, candStatus, usage_logs>>

\* lines 137-144: update_one with $push of the candidate's message
PersistLater(s) == sessions

PersistUserMessage(s) == Push(s, UserMsg)

\* lines 136-144: the candidate's message is pushed before the LLM call
PushUserMessage(t) ==
    /\ task[t].pc = "pm_push"
    /\ sessions' = PersistUserMessage(task[t].sid)
    /\ Set(t, [task[t] EXCEPT !.pc = "pm_llm1",
                              !.pos = Len(sessions[task[t].sid].messages) + 1])
    /\ UNCHANGED <<candStatus, usage_logs, requests>>

\* tool calls a response may carry; args "bad" is an arguments string that
\* json.loads (line 206) rejects
ToolCall(n, a) == [name |-> n, args |-> a]

ToolCallLists ==
    { <<>>,
      <<ToolCall("end_interview", "ok")>>,
      <<ToolCall("User_Info1", "ok")>>,
      <<ToolCall("User_Info1", "bad")>>,
      <<ToolCall("Retrieve_messages1", "ok"), ToolCall("User_Info1", "ok")>>,
      <<ToolCall("Retrieve_messages1", "ok"), ToolCall("end_interview", "ok")>> }

\* line 202: ai_message.model_dump() appended to the working history
ToolCallMsg(calls) == [role |-> "assistant", content |-> "none", tool_calls |-> calls]

\* lines 209-231: the tool-result message of one tool call
ToolOutput(name) ==
    CASE name = "Retrieve_messages1" -> "Context retrieved successfully."
      [] name = "User_Info1" -> "User info saved."
      [] OTHER -> "Success"

ToolResult(call) ==
    [role |-> "tool", name |-> call.name, content |-> ToolOutput(call.name)]

\* the tool results appended before the loop ends: at its end, at an
\* end_interview call (line 214) or at arguments that do not parse
RECURSIVE Processed(_)
Processed(calls) ==
    IF calls = <<>> \/ Head(calls).args = "bad" \/ Head(calls).name = "end_interview"
    THEN <<>>
    ELSE <<ToolResult(Head(calls))>> \o Processed(Tail(calls))

\* lines 204-231: the tool calls in order; end_interview completes the
\* interview at once, the others only produce a tool result
RECURSIVE RunTools(_)
RunTools(calls) ==
    IF calls = <<>> THEN "second_call"
    ELSE IF Head(calls).args = "bad" THEN "error"
    ELSE IF Head(calls).name = "end_interview" THEN "complete"
    ELSE RunTools(Tail(calls))

\* message.content of a response: a text, "" or None
ContentChoices == {"text", "empty", "none"}

\* lines 183-272: the first chat completion call resolves.  An exception of
\* the usage recording (line 194) reaches the except branch before the
\* response is looked at.  Without tool calls, content None fails at line
\* 263 inside the try block.
FirstResponse(t) ==
    /\ task[t].pc = "pm_llm1"
    /\ \/ /\ Set(t, ErrorReply([task[t] EXCEPT !.calls = 1], "llm_raised"))
          /\ UNCHANGED usage_logs
       \/ \E u \in UsageChoices :
             /\ BillingRaised(u)
             /\ usage_logs' = LogUsage(u, "chat")
             /\ Set(t, ErrorReply([task[t] EXCEPT !.calls = 1], "billing_raised"))
       \/ \E tools \in ToolCallLists, u \in UsageChoices :
          \E content \in IF tools # <<>> THEN {"none"} ELSE ContentChoices :
             LET r == [task[t] EXCEPT !.calls = 1, !.tool_calls = tools]
                 h == [r EXCEPT !.messages = @ \o <<ToolCallMsg(tools)>>
                                               \o Processed(tools)]
             IN
             /\ ~BillingRaised(u)
             /\ usage_logs' = LogUsage(u, "chat")
             /\ IF tools # <<>>
                THEN CASE RunTools(tools) = "error" -> Set(t, ErrorReply(h, "bad_args"))
                       [] RunTools(tools) = "complete" ->
                             Set(t, [r EXCEPT !.pc = "ev_llm", !.tool_calls = <<>>])
                       [] OTHER -> Set(t, [h EXCEPT !.pc = "pm_llm2"])
                ELSE CASE content = "none" -> Set(t, ErrorReply(r, "no_content"))
                       [] content = "empty" -> Set(t, Done(r, "Placeholder", "empty"))
                       [] OTHER -> Set(t, [r EXCEPT !.pc = "pm_save", !.messages = <<>>])
    /\ UNCHANGED <<sessions, candStatus, requests>>

\* lines 235-260: the second chat completion call resolves
SecondResponse(t) ==
    /\ task[t].pc = "pm_llm2"
    /\ \/ /\ Set(t, ErrorReply([task[t] EXCEPT !.calls = 2, !.tool_calls = <<>>],
                              "llm_raised"))
          /\ UNCHANGED usage_logs
       \/ \E u \in UsageChoices :
             /\ BillingRaised(u)
             /\ usage_logs' = LogUsage(u, "chat_tool_response")
             /\ Set(t, ErrorReply([task[t] EXCEPT !.calls = 2, !.tool_calls = <<>>],
                                  "billing_raised"))
       \/ \E content \in ContentChoices, u \in UsageChoices :
             LET r == [task[t] EXCEPT !.calls = 2, !.tool_calls = <<>>] IN
             /\ ~BillingRaised(u)
             /\ usage_logs' = LogUsage(u, "chat_tool_response")
             /\ IF content = "text"
                THEN Set(t, [r EXCEPT !.pc = "pm_save", !.messages = <<>>])
                ELSE Set(t, Done(r, "Continue", "empty"))
    /\ UNCHANGED <<sessions, candStatus, requests>>

\* lines 251-257 and 264-270: the assistant's text is pushed and returned
PersistHistory(s) ==
    Push(s, ToolResult(ToolCall("User_Info1", "ok")))

PersistReply(s) == Push(s, AssistantMsg)

SaveReply(t) ==
    /\ task[t].pc = "pm_save"
    /\ sessions' = PersistReply(task[t].sid)
    /\ Set(t, Done(task[t], "Reply", "saved"))
    /\ UNCHANGED <<candStatus, usage_logs, requests>>

\* ----------------------------------------- evaluate / complete_interview
FailedScoring ==
    [scores |-> <<>>, total_score |-> 0, summary_notes |-> "Scoring failed."]
GoodScoring ==
    [scores |-> <<"q1">>, total_score |-> 1, summary_notes |-> "notes"]

\* lines 370-372: the defaults of .get for an object without the keys
DefaultScoring == [scores |-> <<>>, total_score |-> 0, summary_notes |-> ""]

\* process_message passes complete_interview the session object it built at
\* line 124: its messages are the log as read at line 120, which the working
\* history holds between the system prompt and the turn's user message
\* (lines 133-138)
SessionMessages(r) == SubSeq(r.messages, 2, Len(r.messages) - 1)

\* lines 305-309: the transcript lines of evaluate_interview, "AI" or
\* "Candidate" with the content, system messages dropped
RECURSIVE Transcript(_)
Transcript(msgs) ==
    IF msgs = <<>> THEN <<>>
    ELSE (IF Head(msgs).role = "system" THEN <<>>
          ELSE <<[role |-> IF Head(msgs).role = "assistant" THEN "AI"
                           ELSE "Candidate",
                  content |-> Head(msgs).content]>>)
            \o Transcript(Tail(msgs))

\* evaluate_interview, lines 289-363.  The pipeline read (line 293) is
\* outside the try block: a missing document fails at line 295.  Inside the
\* try block a failed call, a failed usage recording or unparsable content
\* gives the failure result; JSON that parses is returned as it is: an
\* object with the keys, an object without them, or no object at all.
ScoringOutcomes ==
    {"no_pipeline", "raise", "bad_json", "object", "empty_object", "not_object"}

\* complete_interview line 369-372 follows in the same step: .get on a
\* result that is not an object raises, and like an exception of
\* evaluate_interview it reaches the except branch of process_message
EvaluateInterview(t) ==
    /\ task[t].pc = "ev_llm"
    /\ \E out \in ScoringOutcomes :
       \E u \in IF out \in {"no_pipeline", "raise"} THEN {"none"} ELSE UsageChoices :
          /\ usage_logs' = LogUsage(u, "scoring")
          /\ CASE out = "no_pipeline" -> Set(t, ErrorReply(task[t], "evaluate_raised"))
               [] out \in {"raise", "bad_json"} \/ BillingRaised(u) ->
                     Set(t, [task[t] EXCEPT !.pc = "ci_session", !.scoring = FailedScoring])
               [] out = "object" ->
                     Set(t, [task[t] EXCEPT !.pc = "ci_session", !.scoring = GoodScoring])
               [] out = "empty_object" ->
                     Set(t, [task[t] EXCEPT !.pc = "ci_session", !.scoring = DefaultScoring])
               [] OTHER -> Set(t, ErrorReply(task[t], "complete_raised"))
    /\ UNCHANGED <<sessions, candStatus, requests>>

\* complete_interview, lines 374-383: status, scores and total in one $set
CompleteSession(t) ==
    /\ task[t].pc = "ci_session"
    /\ sessions' = [sessions EXCEPT ![task[t].sid] =
                      [@ EXCEPT !.status = "completed",
                                !.scores = task[t].scoring.scores,
                                !.total_score = task[t].scoring.total_score]]
    /\ Set(t, [task[t] EXCEPT !.pc = "ci_cand"])
    /\ UNCHANGED <<candStatus, usage_logs, requests>>

\* lines 385-389: the candidate's status
CompleteCandidate(t) ==
    /\ task[t].pc = "ci_cand"
    /\ candStatus' = [candStatus EXCEPT ![task[t].cand] = "interview_completed"]
    /\ Set(t, [task[t] EXCEPT !.pc = "ci_sync"])
    /\ UNCHANGED <<sessions, usage_logs, requests>>

\* lines 391-441: how the best-effort Airtable sync ends.  "skipped": no
\* record id or missing configuration, the early returns of lines 395-397
\* and 409-411; "raised": an exception inside the try block - a missing
\* organization or pipeline document fails at .get (lines 401, 407), a
\* failed update_record raises (line 429); "synced": the record is updated.
CrmOutcomes == {"skipped", "raised", "synced"}

\* lines 440-441 and 213-214: the except branch only prints, so
\* complete_interview returns and the fixed acknowledgment is the reply
SyncPropagates(r, out) ==
    IF out = "raised"
    THEN ErrorReply([r EXCEPT !.crm = out], "sync_raised")
    ELSE Done([r EXCEPT !.crm = out], "Completed", "end_interview")

AfterSync(r, out) == Done([r EXCEPT !.crm = out], "Completed", "end_interview")

AirtableSync(t) ==
    /\ task[t].pc = "ci_sync"
    /\ \E out \in CrmOutcomes : Set(t, AfterSync(task[t], out))
    /\ UNCHANGED <<sessions, candStatus, usage_logs, requests>>

\* --------------------------------------------------------- specification
\* A response is delivered before any other request moves on: Deliver
\* touches only its own slot, which no other step reads.
NoPending == \A u \in Tasks : task[u].pc # "done"

Next ==
    \E t \in Tasks :
        \/ NoPending /\ StartInterview(t)
        \/ NoPending /\ ButtonClick(t)
        \/ NoPending /\ InsertSession(t)
        \/ NoPending /\ GreetingResponse(t)
        \/ NoPending /\ GreetingPush(t)
        \/ NoPending /\ Refetch(t)
        \/ NoPending /\ AbandonStuck(t)
        \/ NoPending /\ RecreateSession(t)
        \/ NoPending /\ ProcessMessage(t)
        \/ NoPending /\ PushUserMessage(t)
        \/ NoPending /\ FirstResponse(t)
        \/ NoPending /\ SecondResponse(t)
        \/ NoPending /\ SaveReply(t)
        \/ NoPending /\ EvaluateInterview(t)
        \/ NoPending /\ CompleteSession(t)
        \/ NoPending /\ CompleteCandidate(t)
        \/ NoPending /\ AirtableSync(t)
        \/ Deliver(t)

Spec == Init /\ [][Next]_vars

\* The store that a button_click on a stuck session leaves behind: the
\* abandoned session, its log ending with the candidate's message, and the
\* fresh active session with its greeting.
InitAbandoned ==
    /\ sessions = <<[NewSession("c1") EXCEPT !.status = "abandoned",
                                            !.messages = <<AssistantMsg, UserMsg>>],
                    [NewSession("c1") EXCEPT !.messages = <<AssistantMsg>>]>>
    /\ candStatus = [c \in Candidates |-> "active"]
    /\ usage_logs = <<>>
    /\ task = [t \in Tasks |-> Idle]
    /\ requests = 0
    /\ ledger = EmptyLedger
    /\ billing = [t \in Tasks |-> NoCall]
    /\ pipeline = Pipeline(FALSE, <<>>, <<>>)
    /\ prompt = NotCompiled

SpecAbandoned == InitAbandoned /\ [][Next]_vars

\* ---------------------------------------------------------------- ledger
\* _log_token_usage, lines 444-501, one action per await.  Two recordings
\* may be in flight together, one per request slot.
MaxRecordings == 2    \* _log_token_usage calls begun in a run

\* settings.input_token_cost_per_million = 1.00 and
\* settings.output_token_cost_per_million = 2.50, in cents per million
\* tokens.  A cost is then a whole number of 1e-8 dollars: the code's
\* (tokens / 1_000_000) * rate, without the rounding of floats.
input_token_cost_per_million == 100
output_token_cost_per_million == 250

\* lines 463-465
CostAtInputRate(i, o) == (i + o) * input_token_cost_per_million

Cost(i, o) ==
    i * input_token_cost_per_million + o * output_token_cost_per_million

\* usage.prompt_tokens and usage.completion_tokens of a response
TokenCounts == {50, 100}

\* the interaction_type a caller passes
UsageKinds == {"chat", "scoring"}

\* $inc of the three running totals by one recording
Inc(total, u) ==
    Amount(total.input_tokens + u.input_tokens,
           total.output_tokens + u.output_tokens,
           total.cost + u.cost)

\* lines 468-477: the log entry of a recording
LogEntry(b) ==
    [candidate_id |-> b.candidate_id, interaction_type |-> b.kind,
     input_tokens |-> b.usage.input_tokens,
     output_tokens |-> b.usage.output_tokens, cost |-> b.usage.cost]

SetCall(t, b) ==
    /\ billing' = [billing EXCEPT ![t] = b]
    /\ UNCHANGED <<sessions, candStatus, task, promptVars>>

\* lines 444-465: the call begins, reads the candidate and computes the
\* cost; without a candidate document it returns before any write
LogTokenUsage(t) ==
    /\ billing[t].pc = "idle"
    /\ requests < MaxRecordings
    /\ requests' = requests + 1
    /\ \E c \in CandidateIds, kind \in UsageKinds, i \in TokenCounts, o \in TokenCounts :
          LET b == [NoCall EXCEPT !.candidate_id = c, !.kind = kind,
                                  !.usage = Amount(i, o, Cost(i, o))]
          IN  SetCall(t, [b EXCEPT !.pc = IF c \in Candidates THEN "insert"
                                          ELSE "returned"])
    /\ UNCHANGED <<ledger, usage_logs>>

\* line 479: insert_one of the log entry, or the write raises
InsertLogLast(t) ==
    /\ billing[t].pc = "insert"
    /\ SetCall(t, [billing[t] EXCEPT !.pc = "inc_candidate"])
    /\ UNCHANGED <<ledger, usage_logs, requests>>

InsertLog(t) ==
    /\ billing[t].pc = "insert"
    /\ \/ /\ ledger' = [ledger EXCEPT !.entries = Append(@, LogEntry(billing[t]))]
          /\ usage_logs' = Append(usage_logs, billing[t].kind)
          /\ SetCall(t, [billing[t] EXCEPT !.pc = "inc_candidate"])
       \/ /\ SetCall(t, [billing[t] EXCEPT !.pc = "raised"])
          /\ UNCHANGED <<ledger, usage_logs>>
    /\ UNCHANGED requests

\* lines 482-489: $inc of the candidate's totals, or the write raises
IncCandidate(t) ==
    /\ billing[t].pc = "inc_candidate"
    /\ \/ /\ ledger' = [ledger EXCEPT !.candidate = Inc(@, billing[t].usage)]
          /\ SetCall(t, [billing[t] EXCEPT !.pc = "inc_organization"])
       \/ /\ SetCall(t, [billing[t] EXCEPT !.pc = "raised"])
          /\ UNCHANGED ledger
    /\ UNCHANGED <<usage_logs, requests>>

\* lines 492-499: $inc of the organization's totals, or the write raises
IncOrganization(t) ==
    /\ billing[t].pc = "inc_organization"
    /\ \/ /\ ledger' = [ledger EXCEPT !.organization = Inc(@, billing[t].usage)]
          /\ SetCall(t, [billing[t] EXCEPT !.pc = "returned"])
       \/ /\ SetCall(t, [billing[t] EXCEPT !.pc = "raised"])
          /\ UNCHANGED ledger
    /\ UNCHANGED <<usage_logs, requests>>

\* the call has returned or raised: its frame is gone
LeaveLedger(t) ==
    /\ billing[t].pc \in {"returned", "raised"}
    /\ SetCall(t, NoCall)
    /\ UNCHANGED <<ledger, usage_logs, requests>>

NextLedger ==
    \E t \in Tasks :
        \/ LogTokenUsage(t)
        \/ InsertLog(t)
        \/ IncCandidate(t)
        \/ IncOrganization(t)
        \/ LeaveLedger(t)

SpecLedger == Init /\ [][NextLedger]_vars

\* ------------------------------------------------------- prompt compiler
\* A text is a sequence of tokens: words, line breaks, the four placeholder
\* markers, numbers written into the text, and the "k. " that opens a
\* numbered line.  str.replace works on characters; a marker is one token, so
\* replacing it is replacing that token by the tokens of the replacement.
MaxQuestions == 2     \* questions of a pipeline
MaxTemplate == 2      \* tokens of an agent_prompt written by hand

Tok(kind, val, n) == [kind |-> kind, val |-> val, n |-> n]
Word(w) == Tok("word", w, 0)
Newline == Tok("newline", "\n", 0)
Marker(m) == Tok("marker", m, 0)
TOTAL_QUESTIONS == Marker("{{TOTAL_QUESTIONS}}")
QUESTIONS_LIST == Marker("{{QUESTIONS_LIST}}")
LAST_QUESTION_TEXT == Marker("{{LAST_QUESTION_TEXT}}")
PENULTIMATE_QUESTION == Marker("{{PENULTIMATE_QUESTION}}")
Markers == {TOTAL_QUESTIONS, QUESTIONS_LIST, LAST_QUESTION_TEXT, PENULTIMATE_QUESTION}

\* str(k) written for a count or an index, and the "k. " of a list line
Number(what, k) == Tok(what, "str", k)
Numbered(k) == Tok("numbered", "k. ", k)

\* str.replace(marker, replacement), lines 111-114
RECURSIVE Replace(_, _, _)
Replace(text, marker, replacement) ==
    IF text = <<>> THEN <<>>
    ELSE (IF Head(text) = marker THEN replacement ELSE <<Head(text)>>)
            \o Replace(Tail(text), marker, replacement)

\* a question of a stage: its text (one token), its display order and
\* whether it has a follow-up with a text
Question(text, order, follow_up) ==
    [text |-> text, order |-> order, follow_up |-> follow_up]

QuestionTexts == {Word("question"), TOTAL_QUESTIONS, LAST_QUESTION_TEXT}

Questions ==
    {Question(x, o, f) : x \in QuestionTexts, o \in 1..2, f \in BOOLEAN}

SeqsUpTo(S, n) == UNION {[1..k -> S] : k \in 0..n}

\* lines 87-99: the entry of a question, its text and the follow-up line
Entry(q) ==
    <<q.text>> \o (IF q.follow_up THEN <<Newline, Word("[FOLLOW-UP]")>> ELSE <<>>)

\* entry.split("\n")[0], line 105
RECURSIVE FirstLine(_)
FirstLine(text) ==
    IF text = <<>> \/ Head(text) = Newline THEN <<>>
    ELSE <<Head(text)>> \o FirstLine(Tail(text))

\* line 108: "\n".join(f"{i+1}. {q}"), from entry i on
RECURSIVE QuestionsList(_, _)
QuestionsList(entries, i) ==
    IF i > Len(entries) THEN <<>>
    ELSE (IF i > 1 THEN <<Newline>> ELSE <<>>)
            \o <<Numbered(i)>> \o entries[i] \o QuestionsList(entries, i + 1)

\* get_system_prompt, lines 70-116
get_system_prompt(p) ==
    IF ~p.found THEN <<Word("You are a helpful interviewer. Please ask questions.")>>
    ELSE IF ~p.enabled
    THEN <<Word("You are a helpful interviewer. Please ask questions in English.")>>
    ELSE
    LET fromStages == [i \in 1..Len(p.questions) |-> Entry(p.questions[i])]
        questions_data ==
            IF fromStages = <<>>
            THEN <<<<Word("Describe your background.")>>,
                   <<Word("Why do you want this job?")>>>>
            ELSE fromStages
        total_questions == Len(questions_data)
        last_question_text == FirstLine(questions_data[total_questions])
        penultimate_question ==
            IF total_questions > 1 THEN total_questions - 1 ELSE 1
        questions_list_str == QuestionsList(questions_data, 1)
        r1 == Replace(p.agent_prompt, TOTAL_QUESTIONS,
                      <<Number("total", total_questions)>>)
        r2 == Replace(r1, QUESTIONS_LIST, questions_list_str)
        r3 == Replace(r2, LAST_QUESTION_TEXT, last_question_text)
    IN  Replace(r3, PENULTIMATE_QUESTION,
                <<Number("penultimate", penultimate_question)>>)

\* sorted(questions, key=lambda q: q.order), prompt_generator.py line 10: a
\* stable sort
RECURSIVE InsertByOrder(_, _)
InsertByOrder(q, sorted) ==
    IF sorted = <<>> THEN <<q>>
    ELSE IF sorted[Len(sorted)].order <= q.order THEN Append(sorted, q)
    ELSE Append(InsertByOrder(q, SubSeq(sorted, 1, Len(sorted) - 1)),
                sorted[Len(sorted)])

RECURSIVE SortByOrder(_)
SortByOrder(qs) ==
    IF qs = <<>> THEN <<>>
    ELSE InsertByOrder(qs[Len(qs)], SortByOrder(SubSeq(qs, 1, Len(qs) - 1)))

\* prompt_generator.py lines 17-44: the list lines and the branching
\* instructions of the follow-ups, from question i on
RECURSIVE QuestionListText(_, _)
QuestionListText(qs, i) ==
    IF i > Len(qs) THEN <<>>
    ELSE <<Numbered(i), qs[i].text, Newline>>
            \o (IF qs[i].follow_up
                THEN <<Tok("sub_id", "ka. ", i), Word("follow-up"), Newline>>
                ELSE <<>>)
            \o QuestionListText(qs, i + 1)

RECURSIVE LogicInstructions(_, _)
LogicInstructions(qs, i) ==
    IF i > Len(qs) THEN <<>>
    ELSE (IF qs[i].follow_up THEN <<Tok("logic", "sub-question", i), Newline>>
          ELSE <<>>)
            \o LogicInstructions(qs, i + 1)

\* generate_system_prompt, prompt_generator.py lines 4-98: the fixed text
\* with the question count, the branching logic and the question list
generate_system_prompt(questions) ==
    LET sorted_questions == SortByOrder(questions)
        total_main == Len(sorted_questions)
    IN  <<Word("## Role"), Number("total_main", total_main), Newline,
          Word("## Interview Workflow"), Newline>>
           \o LogicInstructions(sorted_questions, 1)
           \o <<Word("## Interview Questions List"), Newline>>
           \o QuestionListText(sorted_questions, 1)

\* what an operator may have set up: any hand-written template, any
\* questions
Templates == SeqsUpTo(Markers \cup {Word("text")}, MaxTemplate)

QuestionLists == SeqsUpTo(Questions, MaxQuestions)

\* find_one found no pipeline document
MissingPipeline == [Pipeline(FALSE, <<>>, <<>>) EXCEPT !.found = FALSE]

InitPrompt ==
    /\ sessions = <<>>
    /\ candStatus = [c \in Candidates |-> "active"]
    /\ usage_logs = <<>>
    /\ task = [t \in Tasks |-> Idle]
    /\ requests = 0
    /\ ledger = EmptyLedger
    /\ billing = [t \in Tasks |-> NoCall]
    /\ \/ \E e \in BOOLEAN, tpl \in Templates, qs \in QuestionLists :
             pipeline = Pipeline(e, tpl, qs)
       \/ pipeline = MissingPipeline
    /\ prompt = NotCompiled

\* process_message line 129 and _generate_initial_greeting: the prompt of a
\* session is compiled from the pipeline as it is now
GetSystemPrompt ==
    /\ prompt.kind \in {"none", "configured"}
    /\ prompt' = [kind |-> "prompt", text |-> get_system_prompt(pipeline)]
    /\ UNCHANGED <<sessions, candStatus, usage_logs, task, requests, ledgerVars,
                   pipeline>>

\* auto_configure_interview_agent, questions.py lines 296-364: without a
\* document 404, without questions 400; otherwise the generated prompt is
\* stored as agent_prompt and the agent is enabled
AutoConfigure ==
    /\ prompt.kind = "none"
    /\ IF ~pipeline.found
       THEN prompt' = [kind |-> "HTTP_404", text |-> <<>>] /\ UNCHANGED pipeline
       ELSE IF pipeline.questions = <<>>
       THEN prompt' = [kind |-> "HTTP_400", text |-> <<>>] /\ UNCHANGED pipeline
       ELSE LET system_prompt == generate_system_prompt(pipeline.questions)
            IN  /\ pipeline' = [pipeline EXCEPT !.enabled = TRUE,
                                                !.agent_prompt = system_prompt]
                /\ prompt' = [kind |-> "configured", text |-> system_prompt]
    /\ UNCHANGED <<sessions, candStatus, usage_logs, task, requests, ledgerVars>>

NextPrompt ==
    \/ GetSystemPrompt
    \/ AutoConfigure

SpecPrompt == InitPrompt /\ [][NextPrompt]_vars

\* ------------------------------------------------------------- claims
IsPrefix(a, b) == Len(a) <= Len(b) /\ SubSeq(b, 1, Len(a)) = a

\* C1: for every candidate at most one session has status active, in every
\* reachable state of the store.
C1_AtMostOneActive ==
    \A c \in Candidates : Cardinality(ActiveOf(c)) <= 1

\* C2: completed and abandoned are terminal: once a session's status is one
\* of them, no step changes it to a different value.
C2_TerminalStatusKept ==
    [][\A s \in DOMAIN sessions :
          sessions[s].status \in {"completed", "abandoned"}
             => sessions'[s].status = sessions[s].status]_vars

\* C3: a session is created active, and its status changes only from active
\* to completed, by the completion step of a turn, or from active to
\* abandoned, by the adapter's abandon write.
C3_OnlyTwoTransitions ==
    [][/\ \A s \in DOMAIN sessions' \ DOMAIN sessions : sessions'[s].status = "active"
       /\ \A s \in DOMAIN sessions :
             sessions'[s].status # sessions[s].status =>
                /\ sessions[s].status = "active"
                /\ \E t \in Tasks :
                      /\ task[t].sid = s
                      /\ \/ /\ sessions'[s].status = "completed"
                            /\ task[t].op = "chat" /\ task[t].pc = "ci_session"
                            /\ task'[t].pc = "ci_cand"
                         \/ /\ sessions'[s].status = "abandoned"
                            /\ task[t].op = "button" /\ task[t].pc = "bc_abandon"
                            /\ task'[t].pc = "bc_recreate"]_vars

\* C4: the persisted message log of every session is append-only: in every
\* step each session is kept and its log before the step is a prefix of its
\* log after the step.
C4_LogAppendOnly ==
    [][\A s \in DOMAIN sessions :
          /\ s \in DOMAIN sessions'
          /\ IsPrefix(sessions[s].messages, sessions'[s].messages)]_vars

\* a log that grew by a turn after its opening message
C4_Witness ==
    \E s \in DOMAIN sessions :
        /\ Len(sessions[s].messages) >= 3
        /\ sessions[s].messages[2] = UserMsg

\* C5: a create_session call that finds the candidate's active session with
\* a non-empty log returns that session's id at once: no session is created,
\* no LLM call is issued, no usage is recorded and every log is unchanged -
\* so a second call right after it finds the same store and returns the
\* same id.
C5_ResumeIdempotent ==
    [][\A t \in Tasks :
          LET c == task'[t].cand
              s == FindActive(c)
          IN  ( /\ task[t].pc \in {"idle", "bc_recreate"}
                /\ task'[t].op \in {"start", "button"}
                /\ task'[t] # task[t]
                /\ task'[t].via # "not_found"
                /\ s # 0
                /\ sessions[s].messages # <<>> )
              => /\ task'[t].sid = s
                 /\ task'[t].via = "resumed"
                 /\ task'[t].calls = task[t].calls
                 /\ task'[t].pc \in {"done", "bc_abandon"}
                 /\ task'[t].op = "start" => task'[t].result = "session"
                 /\ sessions' = sessions
                 /\ usage_logs' = usage_logs]_vars

\* the second of two consecutive calls has returned the populated session,
\* and the store is as it was before the first
C5_Witness ==
    \E t \in Tasks :
        /\ task[t].pc = "done" /\ task[t].op = "start" /\ task[t].via = "resumed"
        /\ requests = 2
        /\ task[t].sid = 1
        /\ sessions = <<[NewSession("c1") EXCEPT !.messages = <<AssistantMsg>>]>>
        /\ usage_logs = <<>>

\* C6: the session a create_session call returns after creating it is
\* active and its log holds exactly one message, from the assistant.
C6_BootstrapOneGreeting ==
    \A t \in Tasks :
        ( /\ task[t].pc = "done" /\ task[t].op = "start"
          /\ task[t].via = "created" /\ task[t].result = "session" )
        => LET doc == sessions[task[t].sid]
           IN  /\ doc.status = "active"
               /\ Len(doc.messages) = 1
               /\ doc.messages[1].role = "assistant"

\* C7: a turn whose first response reached an end_interview tool call
\* returns the fixed acknowledgment after exactly one chat call, with the
\* session completed, the scoring result written and the candidate marked
\* interview_completed.
C7_ToolDrivenCompletion ==
    \A t \in Tasks :
        ( /\ task[t].pc = "done" /\ task[t].op = "chat"
          /\ task[t].via \in {"end_interview", "evaluate_raised", "complete_raised"} )
        => /\ task[t].result = "Completed"
           /\ task[t].calls = 1
           /\ sessions[task[t].sid].status = "completed"
           /\ sessions[task[t].sid].scores = task[t].scoring.scores
           /\ sessions[task[t].sid].total_score = task[t].scoring.total_score
           /\ candStatus[task[t].cand] = "interview_completed"

C9_LlmFailureAbsorbed ==
    [][\A t \in Tasks :
          ( /\ task[t].pc \in {"pm_llm1", "pm_llm2"}
            /\ task'[t].via = "llm_raised" )
          => LET s == task[t].sid
             IN  /\ task'[t].pc = "done"
                 /\ task'[t].result = "Error"
                 /\ sessions' = sessions
                 /\ candStatus' = candStatus
                 /\ task[t].pos \in 1..Len(sessions'[s].messages)
                 /\ sessions'[s].messages[task[t].pos] = UserMsg]_vars

\* the second call of a turn has failed on a session that is still active
C9_Witness ==
    \E t \in Tasks :
        /\ task[t].pc = "done" /\ task[t].via = "llm_raised" /\ task[t].calls = 2
        /\ task[t].result = "Error"
        /\ sessions[task[t].sid].status = "active"
        /\ sessions[task[t].sid].messages[task[t].pos] = UserMsg

\* C10: evaluate_interview never raises; every failure while scoring gives
\* the failure result.
C10_EvaluateNeverRaises ==
    \A t \in Tasks : task[t].pc = "done" => task[t].via # "evaluate_raised"

\* C11: in a turn whose first response invoked end_interview, whatever the
\* scoring call gave (an error, malformed JSON, JSON that is no object with
\* the expected keys), process_message returns the fixed acknowledgment and
\* the session's status is completed.
C11_CompletionDespiteScoring ==
    \A t \in Tasks :
        ( /\ task[t].pc = "done" /\ task[t].op = "chat"
          /\ task[t].via \in {"end_interview", "complete_raised"} )
        => /\ task[t].result = "Completed"
           /\ sessions[task[t].sid].status = "completed"

\* C12: complete_interview writes the session's completion, then the
\* candidate's status, and only then attempts the CRM sync; however the sync
\* ends (skipped, raised, done) the step writes nothing to sessions or
\* candidates and the caller gets the fixed acknowledgment.
C12_CrmNeverFailsCompletion ==
    [][\A t \in Tasks :
          /\ ( task'[t].pc = "ci_cand" /\ task[t].pc # "ci_cand" )
             => /\ task[t].pc = "ci_session"
                /\ sessions'[task[t].sid].status = "completed"
          /\ ( task'[t].pc = "ci_sync" /\ task[t].pc # "ci_sync" )
             => /\ task[t].pc = "ci_cand"
                /\ candStatus'[task[t].cand] = "interview_completed"
          /\ ( task[t].pc = "ci_sync" /\ task'[t] # task[t] )
             => /\ task'[t].pc = "done"
                /\ task'[t].crm \in CrmOutcomes
                /\ task'[t].result = "Completed"
                /\ sessions' = sessions
                /\ candStatus' = candStatus
                /\ candStatus[task[t].cand] = "interview_completed"
                /\ sessions[task[t].sid].status # "active"]_vars

\* the sync raised, the completion is in place and the reply is the
\* acknowledgment
C12_Witness ==
    \E t \in Tasks :
        /\ task[t].pc = "done" /\ task[t].crm = "raised"
        /\ task[t].result = "Completed"
        /\ sessions[task[t].sid].status = "completed"
        /\ candStatus[task[t].cand] = "interview_completed"

\* C13: a failure inside _log_token_usage during a turn does not change the
\* reply of process_message: the turn still ends with one of its regular
\* replies.
C13_BillingNeverChangesReply ==
    \A t \in Tasks :
        ( task[t].pc = "done" /\ task[t].op = "chat"
          /\ task[t].via = "billing_raised" )
        => task[t].result \in {"Reply", "Placeholder", "Continue", "Completed"}

\* C17: while an LLM call of a turn is pending, and after one has failed,
\* the persisted log of the session holds the turn's user message, at the
\* position where the turn pushed it; the first call is issued after that.
C17_UserMessagePersistedFirst ==
    \A t \in Tasks :
        ( /\ task[t].op = "chat"
          /\ \/ task[t].pc \in {"pm_llm1", "pm_llm2"}
             \/ task[t].pc = "done" /\ task[t].via = "llm_raised" )
        => /\ task[t].pos \in 1..Len(sessions[task[t].sid].messages)
           /\ sessions[task[t].sid].messages[task[t].pos] = UserMsg
           /\ task[t].pc = "pm_llm1" => task[t].calls = 0

\* the first call of a turn is pending on a log that already ends with the
\* turn's message
C17_Witness ==
    \E t \in Tasks :
        /\ task[t].op = "chat" /\ task[t].pc = "pm_llm1"
        /\ task[t].pos = Len(sessions[task[t].sid].messages)
        /\ task[t].pos >= 2
        /\ sessions[task[t].sid].messages[task[t].pos] = UserMsg

\* C18: a first response without tool calls: its text is in the log as an
\* assistant message after the turn's user message and is the reply; without
\* text, absent or empty, the reply is the neutral placeholder.
C18_NoToolFirstResponse ==
    \A t \in Tasks :
        ( task[t].pc = "done" /\ task[t].op = "chat" /\ task[t].calls = 1 )
        => /\ task[t].via = "saved"
              => /\ task[t].result = "Reply"
                 /\ \E i \in DOMAIN sessions[task[t].sid].messages :
                       /\ i > task[t].pos
                       /\ sessions[task[t].sid].messages[i] = AssistantMsg
           /\ task[t].via \in {"empty", "no_content"}
              => task[t].result = "Placeholder"

\* C19: a turn makes at most two chat calls; the second call is pending only
\* after a first response with tool calls, none of them end_interview, with
\* the working history ending in the user's message, the assistant's
\* tool-call message and one tool result per call in call order; and a turn
\* whose first response had tool calls without end_interview does not end
\* after one call.
C19_TwoPhaseProtocol ==
    \A t \in Tasks :
        task[t].op = "chat" =>
           LET calls == task[t].tool_calls
               h == task[t].messages
               n == Len(calls)
           IN  /\ task[t].calls <= 2
               /\ task[t].pc = "pm_llm2" =>
                     /\ task[t].calls = 1
                     /\ n >= 1
                     /\ \A i \in 1..n : calls[i].name # "end_interview"
                     /\ Len(h) >= n + 3
                     /\ h[1] = SystemMsg
                     /\ h[Len(h) - n - 1] = UserMsg
                     /\ h[Len(h) - n] = ToolCallMsg(calls)
                     /\ \A i \in 1..n : h[Len(h) - n + i] = ToolResult(calls[i])
               /\ ( task[t].pc = "done" /\ task[t].calls = 1 /\ n >= 1 )
                     => \E i \in 1..n : calls[i].name = "end_interview"

\* C20: when complete_interview finishes, the session document holds status
\* completed, the scores, the total and the summary of the scoring result,
\* and the candidate's status is interview_completed.
C20_CompletionRecord ==
    [][\A t \in Tasks :
          ( task[t].pc = "ci_sync" /\ task'[t].pc = "done" )
          => LET doc == sessions'[task[t].sid]
             IN  /\ doc.status = "completed"
                 /\ doc.scores = task[t].scoring.scores
                 /\ doc.total_score = task[t].scoring.total_score
                 /\ "summary" \in DOMAIN doc
                 /\ doc.summary = task[t].scoring.summary_notes
                 /\ candStatus'[task[t].cand] = "interview_completed"]_vars

\* C14: one _log_token_usage call with i input and o output tokens stores
\* the cost i/1e6 * input rate + o/1e6 * output rate in its log entry, with
\* the token counts, and adds exactly that cost and those counts to the
\* candidate's totals and to the organization's totals.
C14_BillingAmountsAgree ==
    [][\A t \in Tasks :
          LET b == billing[t]
              i == b.usage.input_tokens
              o == b.usage.output_tokens
              cost == i * input_token_cost_per_million
                         + o * output_token_cost_per_million
          IN  /\ ( b.pc = "insert" /\ billing'[t].pc = "inc_candidate" )
                 => /\ Len(ledger'.entries) = Len(ledger.entries) + 1
                    /\ LET e == ledger'.entries[Len(ledger'.entries)]
                       IN  /\ e.input_tokens = i /\ e.output_tokens = o
                           /\ e.cost = cost
                           /\ e.interaction_type = b.kind
              /\ ( b.pc = "inc_candidate" /\ billing'[t].pc = "inc_organization" )
                 => /\ ledger'.candidate.input_tokens = ledger.candidate.input_tokens + i
                    /\ ledger'.candidate.output_tokens = ledger.candidate.output_tokens + o
                    /\ ledger'.candidate.cost = ledger.candidate.cost + cost
              /\ ( b.pc = "inc_organization" /\ billing'[t].pc = "returned" )
                 => /\ ledger'.organization.input_tokens
                          = ledger.organization.input_tokens + i
                    /\ ledger'.organization.output_tokens
                          = ledger.organization.output_tokens + o
                    /\ ledger'.organization.cost = ledger.organization.cost + cost]_vars

\* 100 input and 50 output tokens: 22500 units of 1e-8 dollars, 0.000225,
\* in the entry and in both totals
C14_Witness ==
    /\ Len(ledger.entries) = 1
    /\ ledger.entries[1].input_tokens = 100
    /\ ledger.entries[1].output_tokens = 50
    /\ ledger.entries[1].cost = 22500
    /\ ledger.candidate = Amount(100, 50, 22500)
    /\ ledger.organization = Amount(100, 50, 22500)
    /\ \E t \in Tasks : billing[t].pc = "returned"

\* the tokens of a text that satisfy a test
Count(text, Test(_)) == Cardinality({i \in DOMAIN text : Test(text[i])})
IsNumbered(tok) == tok.kind = "numbered"
IsMarker(tok) == tok \in Markers
IsListMarker(tok) == tok = QUESTIONS_LIST

\* C15: for a pipeline with N >= 1 questions and a template that carries
\* the question list placeholder once, the prompt compiled for a session has
\* exactly N numbered question lines and none of the four placeholder
\* markers, also when a question's text contains a marker; a total written
\* into it is N and a penultimate index is N - 1, or 1 when N = 1.
C15_PromptFullySubstituted ==
    LET N == Len(pipeline.questions) IN
    ( /\ prompt.kind = "prompt"
      /\ pipeline.found /\ pipeline.enabled
      /\ N >= 1
      /\ Count(pipeline.agent_prompt, IsListMarker) = 1 )
    => /\ Count(prompt.text, IsNumbered) = N
       /\ Count(prompt.text, IsMarker) = 0
       /\ \A i \in DOMAIN prompt.text :
             /\ prompt.text[i].kind = "total" => prompt.text[i].n = N
             /\ prompt.text[i].kind = "penultimate"
                   => prompt.text[i].n = IF N = 1 THEN 1 ELSE N - 1

\* C16: for a pipeline without questions no prompt is ever compiled: the
\* only outcome is the configuration error of auto-configuration.
C16_NoQuestionsNoPrompt ==
    ( pipeline.found /\ pipeline.questions = <<>> )
    => prompt.kind \in {"none", "HTTP_400"}

\* the sum of the log entries of a candidate
RECURSIVE EntriesTotal(_, _)
EntriesTotal(entries, c) ==
    IF entries = <<>> THEN Amount(0, 0, 0)
    ELSE LET e == Head(entries)
             rest == EntriesTotal(Tail(entries), c)
         IN  IF e.candidate_id = c
             THEN Amount(rest.input_tokens + e.input_tokens,
                         rest.output_tokens + e.output_tokens, rest.cost + e.cost)
             ELSE rest

AtLeast(a, b) ==
    /\ a.input_tokens >= b.input_tokens
    /\ a.output_tokens >= b.output_tokens
    /\ a.cost >= b.cost

\* C21: a recording writes the log entry, then the candidate's totals, then
\* the organization's totals; so in every state, also after a failed write
\* and with two recordings in flight, the log entries of the candidate sum
\* to at least the candidate's totals, and these to at least the
\* organization's totals.
C21_LedgerNeverOvercounts ==
    /\ AtLeast(EntriesTotal(ledger.entries, "c1"), ledger.candidate)
    /\ AtLeast(ledger.candidate, ledger.organization)
    /\ \A t \in Tasks :
          /\ billing[t].pc \in {"inc_candidate", "inc_organization"}
                => \E i \in DOMAIN ledger.entries :
                      ledger.entries[i] = LogEntry(billing[t])
          /\ billing[t].pc = "inc_organization"
                => AtLeast(ledger.candidate, billing[t].usage)

\* one recording failed after its log entry, another after the candidate's
\* totals: the log is ahead of the candidate, the candidate ahead of the
\* organization
C21_Witness ==
    /\ Len(ledger.entries) = 2
    /\ ledger.candidate.cost > ledger.organization.cost
    /\ EntriesTotal(ledger.entries, "c1").cost > ledger.candidate.cost
    /\ \E t \in Tasks : billing[t].pc = "raised"

\* the interaction type of the LLM call a request is waiting for
CallKind(pc) ==
    CASE pc = "gr_llm" -> "greeting"
      [] pc = "pm_llm1" -> "chat"
      [] pc = "pm_llm2" -> "chat_tool_response"
      [] pc = "ev_llm" -> "scoring"
      [] OTHER -> "none"

IsStableSort(out, in) ==
    /\ Len(out) = Len(in)
    /\ \E f \in [DOMAIN out -> DOMAIN in] :
          /\ \A i, j \in DOMAIN out : i # j => f[i] # f[j]
          /\ \A i \in DOMAIN out : out[i] = in[f[i]]
          /\ \A i, j \in DOMAIN out :
                i < j => \/ out[i].order < out[j].order
                         \/ out[i].order = out[j].order /\ f[i] < f[j]

\* C23: the numbered question list of a compiled prompt is the list of the
\* questions in stable display order, both in the prompt of
\* auto-configuration and in the prompt compiled from the pipeline for a
\* turn (here: from a template that is the list placeholder, for questions
\* whose texts hold no placeholder).
C23_ListInDisplayOrder ==
    \A sorted \in QuestionLists :
       ( /\ IsStableSort(sorted, pipeline.questions)
         /\ \A i \in DOMAIN sorted : sorted[i].text \notin Markers ) =>
          /\ ( prompt.kind = "configured" /\ pipeline.questions # <<>> )
                => \E head \in DOMAIN prompt.text :
                      SubSeq(prompt.text, head, Len(prompt.text))
                         = QuestionListText(sorted, 1)
          /\ ( /\ prompt.kind = "prompt" /\ pipeline.found /\ pipeline.enabled
               /\ pipeline.questions # <<>>
               /\ pipeline.agent_prompt = <<QUESTIONS_LIST>> )
                => prompt.text
                      = QuestionsList([i \in DOMAIN sorted |-> Entry(sorted[i])], 1)

\* C24: a failed opening call does not fail create_session: the step in
\* which the call (or the prompt compilation, or the usage recording)
\* fails ends in no return and no write, the apology is then appended to
\* that session's log and to nothing else, and the session is re-read and
\* returned: a create_session that went through the greeting raises only
\* for a document whose status another request has set to abandoned.
C24_GreetingFailureAbsorbed ==
    [][\A t \in Tasks :
          LET s == task[t].sid IN
          /\ ( task[t].pc = "gr_llm" /\ task'[t] # task[t] )
                => /\ task'[t].pc \in {"gr_push", "cs_refetch"}
                   /\ task'[t].sid = s
                   /\ sessions' = sessions
          /\ ( task[t].pc = "gr_push" /\ task[t].msg = ApologyMsg
               /\ task'[t] # task[t] )
                => /\ task'[t].pc = "cs_refetch"
                   /\ task'[t].sid = s
                   /\ sessions' = [sessions EXCEPT
                                      ![s].messages = Append(@, ApologyMsg)]
          /\ ( task[t].pc = "cs_refetch" /\ task'[t] # task[t]
               /\ sessions[s].status # "abandoned" )
                => /\ task'[t].result \notin {"raise", "error_sent"}
                   /\ task'[t].sid = s
                   /\ task[t].op = "start" => task'[t].result = "session"
                   /\ sessions' = sessions]_vars

\* create_session has returned the session it created, active, with the
\* apology as its only message
C24_Witness ==
    \E t \in Tasks :
        /\ task[t].pc = "done" /\ task[t].op = "start" /\ task[t].via = "created"
        /\ task[t].result = "session"
        /\ sessions[task[t].sid].status = "active"
        /\ sessions[task[t].sid].messages = <<ApologyMsg>>

\* the assistant messages at the head of a log, before any user message
RECURSIVE OpeningMessages(_)
OpeningMessages(msgs) ==
    IF msgs = <<>> \/ Head(msgs).role # "assistant" THEN 0
    ELSE 1 + OpeningMessages(Tail(msgs))

\* C25: a create_session call that finds the candidate's active session
\* with an empty log works on that session and creates none; and however
\* two such calls overlap, the log of a session opens with at most one
\* assistant message.
C25_SelfHealingOnce ==
    /\ \A t \in Tasks :
          task[t].via = "healed" /\ task[t].pc # "done"
             => /\ task[t].sid \in DOMAIN sessions
                /\ sessions[task[t].sid].candidate_id = task[t].cand
    /\ \A s \in DOMAIN sessions : OpeningMessages(sessions[s].messages) <= 1

\* C26: button_click, having obtained a stuck session, marks it abandoned,
\* then obtains a session that create_session newly creates; the click
\* ends with the greeting of that active session sent, and no third
\* create_session call is made.
C26_StuckSessionReplaced ==
    [][\A t \in Tasks :
          LET s == task[t].sid IN
          /\ ( task[t].pc = "bc_abandon" /\ task'[t] # task[t] )
                => /\ task'[t].pc = "bc_recreate"
                   /\ sessions'[s].status = "abandoned"
          /\ ( task[t].pc = "bc_recreate" /\ task'[t] # task[t] )
                => \/ task'[t].pc = "cs_insert"
                   \/ task'[t].via = "not_found"
          /\ ( task[t].retry /\ task'[t] # task[t] )
                => /\ task'[t].pc # "bc_abandon"
                   /\ ( task'[t].pc = "done" /\ task'[t].via # "not_found" )
                         => /\ task'[t].result = "greeting_sent"
                            /\ sessions'[task'[t].sid].status = "active"]_vars

\* C27: while the scoring call of a completing turn is pending, the
\* transcript it was given is the session's persisted log at that moment,
\* user and assistant messages in log order, and so ends with the candidate
\* message of the completing turn.
C27_TranscriptIsPersistedLog ==
    \A t \in Tasks :
        task[t].pc = "ev_llm" =>
           LET transcript == Transcript(SessionMessages(task[t]))
               log == sessions[task[t].sid].messages
           IN  /\ Len(transcript) >= task[t].pos
               /\ transcript[task[t].pos] = [role |-> "Candidate", content |-> "answer"]
               /\ \A i \in 1..task[t].pos :
                     transcript[i].content = log[i].content

\* C28: a turn changes the persisted logs in two steps only: it appends its
\* user message to its session, before any LLM call, and later, as its last
\* step, at most one assistant message; no other step of a turn changes a
\* log, so the tool-call message and the tool results of the working
\* history are never persisted and every persisted message has role user
\* or assistant.
C28_TurnLogDelta ==
    [][/\ \A t \in Tasks :
             ( task[t].op = "chat" /\ task'[t] # task[t] ) =>
                LET s == task[t].sid
                    logs(ss) == [i \in DOMAIN ss |-> ss[i].messages]
                IN  CASE task[t].pc = "pm_push" ->
                            /\ logs(sessions') = [logs(sessions) EXCEPT
                                                     ![s] = Append(@, UserMsg)]
                            /\ task[t].calls = 0 /\ task'[t].pc = "pm_llm1"
                      [] task[t].pc = "pm_save" ->
                            /\ logs(sessions') = [logs(sessions) EXCEPT
                                                     ![s] = Append(@, AssistantMsg)]
                            /\ task'[t].pc = "done"
                      [] OTHER -> logs(sessions') = logs(sessions)
       /\ \A s \in DOMAIN sessions' :
             \A i \in DOMAIN sessions'[s].messages :
                sessions'[s].messages[i].role \in {"user", "assistant"}]_vars

\* a turn with a tool round trip has ended: its session's log grew by the
\* user message and the final assistant message
C28_Witness ==
    \E t \in Tasks :
        /\ task[t].pc = "done" /\ task[t].op = "chat"
        /\ task[t].calls = 2 /\ task[t].via = "saved"
        /\ sessions[task[t].sid].messages = <<AssistantMsg, UserMsg, AssistantMsg>>

\* C29: process_message invoked on a session whose persisted status is
\* abandoned ends in that step with an error: no LLM call is issued,
\* nothing is appended to any log, no usage is recorded and the status
\* stays abandoned.
C29_AbandonedSessionUntouched ==
    [][\A t \in Tasks :
          ( /\ task[t].pc = "idle" /\ task'[t].op = "chat"
            /\ task'[t].sid # 0
            /\ sessions[task'[t].sid].status = "abandoned" )
          => /\ task'[t].pc = "done"
             /\ task'[t].result = "raise"
             /\ task'[t].calls = 0
             /\ sessions' = sessions
             /\ usage_logs' = usage_logs
             /\ candStatus' = candStatus]_vars

\* a turn on the abandoned session has ended with the validation error
C29_Witness ==
    \E t \in Tasks :
        /\ task[t].pc = "done" /\ task[t].op = "chat" /\ task[t].via = "invalid"
        /\ task[t].result = "raise" /\ task[t].calls = 0
        /\ sessions[task[t].sid].status = "abandoned"
        /\ sessions[task[t].sid].messages = <<AssistantMsg, UserMsg>>

\* C30: once a session's persisted status is completed, no step changes its
\* message log, its scores or its total, also when another turn on it was
\* in flight at the moment of completion.
C30_CompletedRecordFrozen ==
    [][\A s \in DOMAIN sessions :
          sessions[s].status = "completed"
             => /\ sessions'[s].messages = sessions[s].messages
                /\ sessions'[s].scores = sessions[s].scores
                /\ sessions'[s].total_score = sessions[s].total_score]_vars

====
